---- MODULE Spec2Model ----
(***************************************************************************)
(* Verifiable Credential service: deterministic canonicalization, the      *)
(* sign / verify protocol built on it, and the caller-visible object heap  *)
(* the service works on.                                                   *)
(*                                                                         *)
(* JavaScript objects are references, so the documents live in a heap of   *)
(* cells; a cell keeps its properties in insertion order.  ECDSA is the    *)
(* ideal signature scheme: a signature string names the key, the signed    *)
(* bytes and the nonce drawn for it, and verifies under the matching       *)
(* public key for exactly those bytes.  The nonce source never repeats.    *)
(***************************************************************************)
EXTENDS Integers, Sequences, FiniteSets, TLC

VARIABLES
  heap,    \* the object heap: a sequence of cells, addressed 1..Len(heap)
  docs,    \* the caller's document variables: root addresses into heap
  meta,    \* per caller document: how it was obtained (history); in the
           \* concurrent runs, per call in flight: its local variables
  ret,     \* the call that has just returned, until the caller goes on
  log,     \* the audit lines (console.log) that call wrote
  rng,     \* number of nonces the signing primitive has drawn
  clock    \* the wall clock read by new Date()

vars == <<heap, docs, meta, ret, log, rng, clock>>

(***************************************************************************)
(* Bounds of the model.                                                    *)
(***************************************************************************)
MaxDocs == 3      \* documents the caller holds (the input and the signed ones)
MaxTamper == 1    \* in-place changes the caller makes to signed documents
MaxCalls == 2     \* calls in flight at the same time

(***************************************************************************)
(* JavaScript values.  A property holds a string, null, or a reference to  *)
(* a heap cell; reading a missing property gives undefined.                *)
(***************************************************************************)
Str(x) == [t |-> "str", s |-> x, a |-> 0]
NullV == [t |-> "null", s |-> "", a |-> 0]
Undef == [t |-> "undef", s |-> "", a |-> 0]
Ref(n) == [t |-> "ref", s |-> "", a |-> n]

Fld(k, v) == [key |-> k, val |-> v]

\* if (x): a reference and a non-empty string are truthy
Truthy(v) == v.t = "ref" \/ (v.t = "str" /\ v.s # "")

IsClass(cell) == cell.kind \in {"VerifiableCredential", "VerifiablePresentation"}

HasKey(cell, k) == \E i \in DOMAIN cell.f : cell.f[i].key = k

KeyIndex(cell, k) == CHOOSE i \in DOMAIN cell.f : cell.f[i].key = k

\* obj.k
Get(h, v, k) ==
  IF v.t = "ref" /\ HasKey(h[v.a], k)
  THEN h[v.a].f[KeyIndex(h[v.a], k)].val
  ELSE Undef

\* obj.k = x  (a new property goes last in insertion order)
SetField(cell, k, x) ==
  IF HasKey(cell, k)
  THEN [cell EXCEPT !.f[KeyIndex(cell, k)].val = x]
  ELSE [cell EXCEPT !.f = Append(@, Fld(k, x))]

\* a delete that is left out
KeepField(cell, k) == cell

\* delete obj.k
DeleteField(cell, k) ==
  LET Keep(e) == e.key # k IN [cell EXCEPT !.f = SelectSeq(@, Keep)]

(***************************************************************************)
(* JSON text, as its syntax tree: what JSON.stringify writes and           *)
(* JSON.parse reads.                                                       *)
(***************************************************************************)
TStr(x) == [t |-> "str", s |-> x, c |-> <<>>]
TNull == [t |-> "null", s |-> "", c |-> <<>>]
TObj(fields) == [t |-> "obj", s |-> "", c |-> fields]
TArr(items) == [t |-> "arr", s |-> "", c |-> [i \in DOMAIN items |-> Fld("", items[i])]]

\* toJSON() of the entity classes: a fresh plain object with the truthy
\* fields only, in the order the method tests them
ClassToJSON(cell) == SelectSeq(cell.f, LAMBDA e : Truthy(e.val))

\* JSON.stringify: follows references, calls toJSON where an object has
\* one, drops undefined properties, keeps insertion order
RECURSIVE Stringify(_, _)
Stringify(h, v) ==
  IF v.t = "str" THEN TStr(v.s)
  ELSE IF v.t # "ref" THEN TNull
  ELSE LET cell == h[v.a]
           own == IF IsClass(cell) THEN ClassToJSON(cell) ELSE cell.f
           kept == SelectSeq(own, LAMBDA e : e.val.t # "undef")
       IN [t |-> IF cell.kind = "Array" THEN "arr" ELSE "obj",
           s |-> "",
           c |-> [i \in DOMAIN kept |-> Fld(kept[i].key, Stringify(h, kept[i].val))]]

\* JSON.parse: builds fresh cells at the top of the heap
RECURSIVE Parse(_, _)
RECURSIVE ParseKids(_, _, _, _)
Parse(h, tr) ==
  IF tr.t = "str" THEN [heap |-> h, val |-> Str(tr.s)]
  ELSE IF tr.t = "null" THEN [heap |-> h, val |-> NullV]
  ELSE LET a == Len(h) + 1
           kind == IF tr.t = "arr" THEN "Array" ELSE "Object"
           h0 == Append(h, [kind |-> kind, f |-> <<>>])
       IN [heap |-> ParseKids(h0, a, tr.c, 1), val |-> Ref(a)]

ParseKids(h, a, kids, i) ==
  IF i > Len(kids) THEN h
  ELSE LET r == Parse(h, kids[i].val)
           h1 == [r.heap EXCEPT ![a].f = Append(@, Fld(kids[i].key, r.val))]
       IN ParseKids(h1, a, kids, i + 1)

\* the addresses reachable from a value
RECURSIVE Reach(_, _)
Reach(h, v) ==
  IF v.t # "ref" THEN {}
  ELSE {v.a} \cup UNION {Reach(h, h[v.a].f[i].val) : i \in DOMAIN h[v.a].f}

(***************************************************************************)
(* The canonical serialization (RFC 8785 style): object keys sorted by     *)
(* code point at every level, no whitespace.                               *)
(***************************************************************************)
Q == "\""

\* the property names of the model, in code-point order
KeyOrder ==
  <<"@context", "created", "credentialSubject", "degree", "holder", "id",
    "issuer", "name", "proof", "proofPurpose", "proofValue", "type",
    "validFrom", "validUntil", "verifiableCredential", "verificationMethod">>

\* the keys in insertion order, as a serializer that does not sort sees them
UnsortedKeys(cell) == [i \in DOMAIN cell.f |-> cell.f[i].key]

\* Object.keys(object).sort()
SortedKeys(cell) == SelectSeq(KeyOrder, LAMBDA k : HasKey(cell, k))

\* a serializer that writes an object the way String(object) does
SerializeToString(h, v) ==
  IF v.t = "str" THEN Q \o v.s \o Q
  ELSE IF v.t # "ref" THEN "null"
  ELSE "[object Object]"

RECURSIVE Serialize(_, _)
RECURSIVE Members(_, _, _, _)
RECURSIVE Elements(_, _, _)
Serialize(h, v) ==
  IF v.t = "str" THEN Q \o v.s \o Q
  ELSE IF v.t # "ref" THEN "null"
  ELSE IF h[v.a].kind = "Array"
       THEN "[" \o Elements(h, h[v.a].f, 1) \o "]"
       ELSE "{" \o Members(h, v, SortedKeys(h[v.a]), 1) \o "}"

Members(h, v, keys, i) ==
  IF i > Len(keys) THEN ""
  ELSE (IF i = 1 THEN "" ELSE ",")
       \o Q \o keys[i] \o Q \o ":" \o Serialize(h, Get(h, v, keys[i]))
       \o Members(h, v, keys, i + 1)

Elements(h, items, i) ==
  IF i > Len(items) THEN ""
  ELSE (IF i = 1 THEN "" ELSE ",")
       \o Serialize(h, items[i].val)
       \o Elements(h, items, i + 1)

(***************************************************************************)
(* JSONLDCanon.canonicalize.  The result carries the heap after the call   *)
(* (the copies it allocated included) and the string returned.             *)
(***************************************************************************)
\* vc.toJSON ? vc.toJSON() : vc
ToJSONOrSelf(h, vc) ==
  IF vc.t = "ref" /\ IsClass(h[vc.a])
  THEN [heap |-> Append(h, [kind |-> "Object", f |-> ClassToJSON(h[vc.a])]),
        val |-> Ref(Len(h) + 1)]
  ELSE [heap |-> h, val |-> vc]

\* a delete on the caller's object itself, the copy left out
DeleteProofInPlace(h, obj) ==
  [heap |-> [h EXCEPT ![obj.a] = DeleteField(@, "proof")], val |-> obj]

\* obj = JSON.parse(JSON.stringify(obj)); delete obj.proof;
CopyAndDeleteProof(h, obj) ==
  LET cp == Parse(h, Stringify(h, obj))
  IN [heap |-> [cp.heap EXCEPT ![cp.val.a] = DeleteField(@, "proof")],
      val |-> cp.val]

\* a canonicalize that never takes the proof out
canonicalizeWithProof(h, vc, excludeProof) ==
  LET o == ToJSONOrSelf(h, vc)
  IN [heap |-> o.heap, str |-> Serialize(o.heap, o.val)]

canonicalize(h, vc, excludeProof) ==
  LET o == ToJSONOrSelf(h, vc)
      x == IF excludeProof /\ Truthy(Get(o.heap, o.val, "proof"))
           THEN CopyAndDeleteProof(o.heap, o.val)
           ELSE o
  IN [heap |-> x.heap, str |-> Serialize(x.heap, x.val)]

(***************************************************************************)
(* Keys.  A key is handed over as a native KeyObject or as the Base64 of   *)
(* its DER encoding (PKCS8 for a private key, SPKI for a public key).      *)
(***************************************************************************)
KeyIds == {"K1", "K2"}

KeyObject(role, id) == [form |-> "KeyObject", role |-> role, id |-> id]
Base64Key(role, id) == [form |-> "string", role |-> role, id |-> id]
NoKey == [form |-> "none", role |-> "", id |-> ""]

\* the keys the callers hand over: of each pair one form
PrivateKeys == {KeyObject("private", "K1"), Base64Key("private", "K2")}
PublicKeys == {Base64Key("public", "K1"), KeyObject("public", "K2")}

\* a normalizer that decodes a string as DER of the other type
getKeyObjectOtherType(key, type) ==
  IF key.form = "string"
  THEN IF key.role # type /\ key.role \in {"private", "public"}
       THEN [threw |-> FALSE, key |-> KeyObject(type, key.id)]
       ELSE [threw |-> TRUE, key |-> NoKey]
  ELSE [threw |-> FALSE, key |-> key]

\* _getKeyObject: a string is decoded as DER of the asked type, which fails
\* on bytes of the other encoding; a KeyObject is returned as it is
getKeyObject(key, type) ==
  IF key.form = "string"
  THEN IF key.role = type
       THEN [threw |-> FALSE, key |-> KeyObject(type, key.id)]
       ELSE [threw |-> TRUE, key |-> NoKey]
  ELSE [threw |-> FALSE, key |-> key]

\* the nonces the signing primitive can have drawn
Nonces == 1..MaxDocs

\* sign.sign(keyObject, 'base64'): the Base64 signature of msg under the
\* private key, made with the n-th nonce drawn
EcdsaSign(id, msg, n) == "sig(" \o id \o "," \o ToString(n) \o "," \o msg \o ")"

\* a check that looks at the signed bytes only, not at the key
EcdsaVerifyAnyKey(keyObject, msg, signature) ==
  \E id \in KeyIds, n \in Nonces : signature = EcdsaSign(id, msg, n)

\* a check that looks at the key only, not at the signed bytes
EcdsaVerifyKeyOnly(keyObject, msg, signature) ==
  \E n \in Nonces, m \in {msg, "other bytes"} :
    signature = EcdsaSign(keyObject.id, m, n)

\* verify.verify(keyObject, signature, 'base64'): true exactly for a signature
\* made over msg with the private key of this key pair; any other string
\* (other bytes, other key, no valid encoding) is rejected, not thrown on
EcdsaVerify(keyObject, msg, signature) ==
  \E n \in Nonces : signature = EcdsaSign(keyObject.id, msg, n)

\* a nonce that is drawn once and then used again
StaleNonce(r) == IF r = 0 THEN r + 1 ELSE r

\* the nonce of the next signature: fresh randomness for every call
NextNonce(r) == r + 1

(***************************************************************************)
(* Proof and ProofGenerator.                                               *)
(***************************************************************************)
PROOF_TYPE == "EcdsaSecp256r1Signature2019"
PROOF_PURPOSE == "assertionMethod"
EC_CURVE_NAME == "P-256"

\* new Date().toISOString()
ISOString(t) == "2024-01-01T00:00:00.00" \o ToString(t) \o "Z"

\* new Proof(): every field null
NewProof ==
  [type |-> NullV, created |-> NullV, verificationMethod |-> NullV,
   proofPurpose |-> NullV, proofValue |-> NullV]

\* a generator that leaves the timestamp out
createProofWithoutDate(type, purpose, now) ==
  [NewProof EXCEPT !.type = Str(type), !.proofPurpose = Str(purpose)]

createProofWithType(type, purpose, now) ==
  [NewProof EXCEPT !.type = Str(type), !.created = Str(ISOString(now)),
                   !.proofPurpose = Str(purpose)]

createProofWithMetadata(type, purpose, verificationMethod, now) ==
  [createProofWithType(type, purpose, now)
     EXCEPT !.verificationMethod = Str(verificationMethod)]

\* a toJSON that still writes the signature under its former name, jws
ProofToJSONJws(p) ==
  SelectSeq(<<Fld("type", p.type), Fld("created", p.created),
              Fld("verificationMethod", p.verificationMethod),
              Fld("proofPurpose", p.proofPurpose),
              Fld("jws", p.proofValue)>>,
            LAMBDA e : Truthy(e.val))

\* a toJSON that writes every field, null ones too
ProofToJSONDense(p) ==
  <<Fld("type", p.type), Fld("created", p.created),
    Fld("verificationMethod", p.verificationMethod),
    Fld("proofPurpose", p.proofPurpose),
    Fld("proofValue", p.proofValue)>>

\* Proof.toJSON: the truthy fields only
ProofToJSON(p) ==
  SelectSeq(<<Fld("type", p.type), Fld("created", p.created),
              Fld("verificationMethod", p.verificationMethod),
              Fld("proofPurpose", p.proofPurpose),
              Fld("proofValue", p.proofValue)>>,
            LAMBDA e : Truthy(e.val))

(***************************************************************************)
(* VerifiableCredentialService.  Each operator runs one method on the heap *)
(* h and returns the heap after the call, whether the call threw, the      *)
(* value returned, the audit lines written and the nonce counter.          *)
(***************************************************************************)
SignedVcLine == "[FIPS AUDIT] Signed VC digest with ECDSA P-256"
SignedVpLine == "[FIPS AUDIT] Signed VP digest with ECDSA P-256"
VerifiedVcLine(valid) ==
  "[FIPS AUDIT] Verified VC signature: " \o (IF valid THEN "true" ELSE "false")
VerifiedVpLine(valid) ==
  "[FIPS AUDIT] Verified VP signature: " \o (IF valid THEN "true" ELSE "false")

\* a template literal `${x}`
TemplateText(v) == IF v.t = "str" THEN v.s ELSE "[object Object]"

Thrown(h, r) == [heap |-> h, threw |-> TRUE, val |-> Undef, log |-> <<>>, rng |-> r]

\* a sign that writes its audit line before it has the key and the signature
signAuditFirst(h, vc, privateKey, now, r) ==
  LET signedVc == Parse(h, Stringify(h, vc))
      proof == createProofWithMetadata(PROOF_TYPE, PROOF_PURPOSE,
                                       "did:example:123#key-1", now)
      canonicalVc == canonicalize(signedVc.heap, vc, TRUE)
      keyObject == getKeyObject(privateKey, "private")
  IN IF keyObject.threw \/ keyObject.key.role # "private"
     THEN [Thrown(canonicalVc.heap, r) EXCEPT !.log = <<SignedVcLine>>]
     ELSE LET signature == EcdsaSign(keyObject.key.id, canonicalVc.str, NextNonce(r))
              signed == [proof EXCEPT !.proofValue = Str(signature)]
              h1 == Append(canonicalVc.heap,
                           [kind |-> "Object", f |-> ProofToJSON(signed)])
          IN [heap |-> [h1 EXCEPT ![signedVc.val.a] =
                                     SetField(@, "proof", Ref(Len(h1)))],
              threw |-> FALSE,
              val |-> signedVc.val,
              log |-> <<SignedVcLine>>,
              rng |-> NextNonce(r)]

sign(h, vc, privateKey, now, r) ==
  LET signedVc == Parse(h, Stringify(h, vc))
      proof == createProofWithMetadata(PROOF_TYPE, PROOF_PURPOSE,
                                       "did:example:123#key-1", now)
      canonicalVc == canonicalize(signedVc.heap, vc, TRUE)
      keyObject == getKeyObject(privateKey, "private")
  IN IF keyObject.threw \/ keyObject.key.role # "private"
     THEN Thrown(canonicalVc.heap, r)
     ELSE LET signature == EcdsaSign(keyObject.key.id, canonicalVc.str, NextNonce(r))
              signed == [proof EXCEPT !.proofValue = Str(signature)]
              h1 == Append(canonicalVc.heap,
                           [kind |-> "Object", f |-> ProofToJSON(signed)])
          IN [heap |-> [h1 EXCEPT ![signedVc.val.a] =
                                     SetField(@, "proof", Ref(Len(h1)))],
              threw |-> FALSE,
              val |-> signedVc.val,
              log |-> <<SignedVcLine>>,
              rng |-> NextNonce(r)]

\* a guard that forgets to look at proofValue
NoProofAtAll(h, vc) == ~Truthy(Get(h, vc, "proof"))

\* !vc.proof || !vc.proof.proofValue
NoProofValue(h, vc) ==
  ~Truthy(Get(h, vc, "proof")) \/ ~Truthy(Get(h, Get(h, vc, "proof"), "proofValue"))

\* a verify that normalizes the key before it looks at the proof
verifyKeyFirst(h, vc, publicKey) ==
  LET keyObject == getKeyObject(publicKey, "public")
  IN IF keyObject.threw
     THEN [heap |-> h, threw |-> TRUE, val |-> FALSE, log |-> <<>>]
     ELSE IF NoProofValue(h, vc)
     THEN [heap |-> h, threw |-> FALSE, val |-> FALSE, log |-> <<>>]
     ELSE LET signature == Get(h, Get(h, vc, "proof"), "proofValue")
              copy == Parse(h, Stringify(h, vc))
              vcWithoutProof ==
                [heap |-> [copy.heap EXCEPT ![copy.val.a] = DeleteField(@, "proof")],
                 val |-> copy.val]
              canonicalVc == canonicalize(vcWithoutProof.heap, vcWithoutProof.val, FALSE)
          IN IF signature.t # "str"
             THEN [heap |-> canonicalVc.heap, threw |-> TRUE, val |-> FALSE, log |-> <<>>]
             ELSE LET valid == EcdsaVerify(keyObject.key, canonicalVc.str, signature.s)
                  IN [heap |-> canonicalVc.heap, threw |-> FALSE, val |-> valid,
                      log |-> <<VerifiedVcLine(valid)>>]

verify(h, vc, publicKey) ==
  IF NoProofValue(h, vc)
  THEN [heap |-> h, threw |-> FALSE, val |-> FALSE, log |-> <<>>]
  ELSE LET signature == Get(h, Get(h, vc, "proof"), "proofValue")
           copy == Parse(h, Stringify(h, vc))
           vcWithoutProof ==
             [heap |-> [copy.heap EXCEPT ![copy.val.a] = DeleteField(@, "proof")],
              val |-> copy.val]
           canonicalVc == canonicalize(vcWithoutProof.heap, vcWithoutProof.val, FALSE)
           keyObject == getKeyObject(publicKey, "public")
       IN IF keyObject.threw \/ signature.t # "str"
          THEN [heap |-> canonicalVc.heap, threw |-> TRUE, val |-> FALSE, log |-> <<>>]
          ELSE LET valid == EcdsaVerify(keyObject.key, canonicalVc.str, signature.s)
               IN [heap |-> canonicalVc.heap, threw |-> FALSE, val |-> valid,
                   log |-> <<VerifiedVcLine(valid)>>]

signPresentation(h, vp, privateKey, now, r) ==
  LET signedVp == Parse(h, Stringify(h, vp))
      proof == createProofWithMetadata(
                 PROOF_TYPE, "authentication",
                 IF Truthy(Get(h, vp, "holder"))
                 THEN TemplateText(Get(h, vp, "holder")) \o "#key-1"
                 ELSE "did:example:holder#key-1",
                 now)
      canonicalVp == canonicalize(signedVp.heap, vp, TRUE)
      keyObject == getKeyObject(privateKey, "private")
  IN IF keyObject.threw \/ keyObject.key.role # "private"
     THEN Thrown(canonicalVp.heap, r)
     ELSE LET signature == EcdsaSign(keyObject.key.id, canonicalVp.str, NextNonce(r))
              signed == [proof EXCEPT !.proofValue = Str(signature)]
              h1 == Append(canonicalVp.heap,
                           [kind |-> "Object", f |-> ProofToJSON(signed)])
          IN [heap |-> [h1 EXCEPT ![signedVp.val.a] =
                                     SetField(@, "proof", Ref(Len(h1)))],
              threw |-> FALSE,
              val |-> signedVp.val,
              log |-> <<SignedVpLine>>,
              rng |-> NextNonce(r)]

\* a verifyPresentation that accepts proofs of purpose authentication only
verifyPresentationByPurpose(h, vp, publicKey) ==
  IF NoProofValue(h, vp)
  THEN [heap |-> h, threw |-> FALSE, val |-> FALSE, log |-> <<>>]
  ELSE LET signature == Get(h, Get(h, vp, "proof"), "proofValue")
           copy == Parse(h, Stringify(h, vp))
           vpWithoutProof ==
             [heap |-> [copy.heap EXCEPT ![copy.val.a] = DeleteField(@, "proof")],
              val |-> copy.val]
           canonicalVp == canonicalize(vpWithoutProof.heap, vpWithoutProof.val, FALSE)
           keyObject == getKeyObject(publicKey, "public")
       IN IF keyObject.threw \/ signature.t # "str"
          THEN [heap |-> canonicalVp.heap, threw |-> TRUE, val |-> FALSE, log |-> <<>>]
          ELSE LET valid ==
                     /\ Get(h, Get(h, vp, "proof"), "proofPurpose") = Str("authentication")
                     /\ EcdsaVerify(keyObject.key, canonicalVp.str, signature.s)
               IN [heap |-> canonicalVp.heap, threw |-> FALSE, val |-> valid,
                   log |-> <<VerifiedVpLine(valid)>>]

verifyPresentation(h, vp, publicKey) ==
  IF NoProofValue(h, vp)
  THEN [heap |-> h, threw |-> FALSE, val |-> FALSE, log |-> <<>>]
  ELSE LET signature == Get(h, Get(h, vp, "proof"), "proofValue")
           copy == Parse(h, Stringify(h, vp))
           vpWithoutProof ==
             [heap |-> [copy.heap EXCEPT ![copy.val.a] = DeleteField(@, "proof")],
              val |-> copy.val]
           canonicalVp == canonicalize(vpWithoutProof.heap, vpWithoutProof.val, FALSE)
           keyObject == getKeyObject(publicKey, "public")
       IN IF keyObject.threw \/ signature.t # "str"
          THEN [heap |-> canonicalVp.heap, threw |-> TRUE, val |-> FALSE, log |-> <<>>]
          ELSE LET valid == EcdsaVerify(keyObject.key, canonicalVp.str, signature.s)
               IN [heap |-> canonicalVp.heap, threw |-> FALSE, val |-> valid,
                   log |-> <<VerifiedVpLine(valid)>>]

(***************************************************************************)
(* Garbage collection: the cells no caller variable reaches are dropped    *)
(* and the rest keep their order.                                          *)
(***************************************************************************)
Collect(h, roots) ==
  LET live == UNION {Reach(h, Ref(roots[i])) : i \in DOMAIN roots}
      kept == SelectSeq([a \in 1..Len(h) |-> a], LAMBDA a : a \in live)
      New(a) == Cardinality({b \in live : b <= a})
      Move(v) == IF v.t = "ref" THEN Ref(New(v.a)) ELSE v
      Cell(c) == [kind |-> c.kind,
                  f |-> [i \in DOMAIN c.f |-> Fld(c.f[i].key, Move(c.f[i].val))]]
  IN IF Len(kept) = Len(h)
     THEN [heap |-> h, roots |-> roots]
     ELSE [heap |-> [n \in DOMAIN kept |-> Cell(h[kept[n]])],
           roots |-> [i \in DOMAIN roots |-> New(roots[i])]]

(***************************************************************************)
(* The documents a caller starts from.                                     *)
(***************************************************************************)
\* a credential as a plain object
Credential ==
  TObj(<<Fld("@context", TArr(<<TStr("https://www.w3.org/ns/credentials/v2")>>)),
         Fld("type", TArr(<<TStr("VerifiableCredential")>>)),
         Fld("issuer", TStr("did:example:A")),
         Fld("validFrom", TStr("2020-01-01T00:00:00Z")),
         Fld("credentialSubject",
             TObj(<<Fld("id", TStr("did:example:B")),
                    Fld("degree", TObj(<<Fld("type", TStr("BachelorDegree")),
                                         Fld("name", TStr("Arts"))>>))>>))>>)

\* a short credential, the base of the proof variants
Short ==
  <<Fld("issuer", TStr("did:example:A")),
    Fld("credentialSubject", TObj(<<Fld("id", TStr("did:example:B"))>>))>>

Metadata ==
  <<Fld("type", TStr(PROOF_TYPE)),
    Fld("created", TStr("2020-01-01T12:01:00Z")),
    Fld("verificationMethod", TStr("did:example:123#key-1")),
    Fld("proofPurpose", TStr(PROOF_PURPOSE))>>

\* the values of the proof field a received document can carry
ProofValues ==
  {TObj(<<>>),                                              \* an empty proof
   TObj(Metadata),                                          \* no proofValue
   TObj(Append(Metadata, Fld("proofValue", TNull))),
   TObj(Append(Metadata, Fld("proofValue", TStr("")))),
   TObj(Append(Metadata, Fld("proofValue", TStr("c2lnbmF0dXJlVmFsdWU=")))),
   TObj(Append(Metadata, Fld("proofValue", TObj(<<>>)))),   \* not a string
   TNull,
   TStr("")}

\* a presentation, with or without a holder
Presentation(withHolder) ==
  TObj(<<Fld("type", TArr(<<TStr("VerifiablePresentation")>>))>>
       \o (IF withHolder THEN <<Fld("holder", TStr("did:example:H"))>> ELSE <<>>)
       \o <<Fld("verifiableCredential", TArr(<<TObj(Short)>>))>>)

PlainDocs ==
  {Credential, TObj(Short), Presentation(TRUE), Presentation(FALSE)}
  \cup {TObj(Append(Short, Fld("proof", p))) : p \in ProofValues}

\* new VerifiableCredential(...): every field is there, null when not given
\* (@context and type, whose default is an empty array, are always given here)
VerifiableCredentialFields ==
  <<"@context", "type", "id", "issuer", "validFrom", "validUntil",
    "credentialSubject", "proof">>

NewVerifiableCredential(given) ==
  [kind |-> "VerifiableCredential",
   f |-> [i \in DOMAIN VerifiableCredentialFields |->
            LET k == VerifiableCredentialFields[i]
            IN Fld(k, IF HasKey(given, k) THEN given.f[KeyIndex(given, k)].val
                      ELSE NullV)]]

\* the heap holding one document: a plain object, or an instance of the
\* class with the same fields
PlainHeap(tree) == Parse(<<>>, tree).heap
InstanceHeap(tree) ==
  LET h == PlainHeap(tree) IN [h EXCEPT ![1] = NewVerifiableCredential(h[1])]

InitHeaps == {PlainHeap(d) : d \in PlainDocs} \cup {InstanceHeap(Credential)}

(***************************************************************************)
(* History kept for each caller document.                                  *)
(***************************************************************************)
\* a document conforming to the data model: proof absent or an object
ValidDocument(h, v) ==
  \/ IsClass(h[v.a])
  \/ ~HasKey(h[v.a], "proof")
  \/ Get(h, v, "proof").t = "ref"

Given(h) ==
  [op |-> "input", by |-> "", form |-> "", src |-> 0, snap |-> Stringify(h, Ref(1)),
   inp |-> Stringify(h, Ref(1)), valid |-> ValidDocument(h, Ref(1)), edits |-> 0]

NoCall ==
  [op |-> "none", arg |-> 0, key |-> NoKey, excl |-> FALSE, threw |-> FALSE,
   val |-> "", out |-> 0]

BoolText(b) == IF b THEN "true" ELSE "false"

RECURSIVE Edits(_, _)
Edits(m, i) == IF i = 0 THEN 0 ELSE m[i].edits + Edits(m, i - 1)

Init ==
  /\ heap \in InitHeaps
  /\ docs = <<1>>
  /\ meta = <<Given(heap)>>
  /\ ret = NoCall
  /\ log = <<>>
  /\ rng = 0
  /\ clock = 0

(***************************************************************************)
(* The calls.                                                              *)
(***************************************************************************)
Returned(op, i, key, r, h0) ==
  LET g == Collect(r.heap, IF r.threw THEN docs ELSE Append(docs, r.val.a))
  IN /\ heap' = g.heap
     /\ docs' = g.roots
     /\ meta' = IF r.threw THEN meta
                ELSE Append(meta,
                       [op |-> op, by |-> key.id, form |-> key.form, src |-> i,
                        snap |-> Stringify(g.heap, Ref(g.roots[Len(g.roots)])),
                        inp |-> Stringify(h0, Ref(docs[i])),
                        valid |-> ValidDocument(h0, Ref(docs[i])),
                        edits |-> 0])
     /\ ret' = [op |-> op, arg |-> i, key |-> key, excl |-> FALSE,
                threw |-> r.threw, val |-> "",
                out |-> IF r.threw THEN 0 ELSE Len(docs) + 1]
     /\ log' = r.log
     /\ rng' = r.rng

\* a presentation carries credentials; the callers sign credentials with
\* sign and presentations with signPresentation
IsPresentation(h, v) == HasKey(h[v.a], "verifiableCredential")

Sign(i, key) ==
  /\ ret = NoCall
  /\ Len(docs) < MaxDocs
  /\ ~IsPresentation(heap, Ref(docs[i]))
  /\ Returned("sign", i, key, sign(heap, Ref(docs[i]), key, clock, rng), heap)
  /\ clock' = clock + 1

SignPresentation(i, key) ==
  /\ ret = NoCall
  /\ Len(docs) < MaxDocs
  /\ IsPresentation(heap, Ref(docs[i]))
  /\ Returned("signPresentation", i, key,
              signPresentation(heap, Ref(docs[i]), key, clock, rng), heap)
  /\ clock' = clock + 1

Answered(op, i, key, r) ==
  /\ ret = NoCall
  /\ heap' = Collect(r.heap, docs).heap
  /\ ret' = [op |-> op, arg |-> i, key |-> key, excl |-> FALSE,
             threw |-> r.threw, val |-> IF r.threw THEN "" ELSE BoolText(r.val),
             out |-> 0]
  /\ log' = r.log
  /\ UNCHANGED <<docs, meta, rng, clock>>

Verify(i, key) == Answered("verify", i, key, verify(heap, Ref(docs[i]), key))

VerifyPresentation(i, key) ==
  Answered("verifyPresentation", i, key, verifyPresentation(heap, Ref(docs[i]), key))

Canonicalize(i, excludeProof) ==
  LET r == canonicalize(heap, Ref(docs[i]), excludeProof)
  IN /\ ret = NoCall
     /\ heap' = Collect(r.heap, docs).heap
     /\ ret' = [op |-> "canonicalize", arg |-> i, key |-> NoKey,
                excl |-> excludeProof, threw |-> FALSE, val |-> r.str, out |-> 0]
     /\ log' = <<>>
     /\ UNCHANGED <<docs, meta, rng, clock>>

(***************************************************************************)
(* What the caller does between the calls.                                 *)
(***************************************************************************)
\* the caller changes the value of one field of a signed document in place
Tamper(i, a, j) ==
  /\ ret = NoCall
  /\ heap[a].f[j].val.t = "str"
  /\ heap' = [heap EXCEPT ![a].f[j].val = Str("did:example:tampered")]
  /\ meta' = [meta EXCEPT ![i].edits = @ + 1]
  /\ UNCHANGED <<docs, ret, log, rng, clock>>

\* strings that are put in the place of a signature: other bytes in valid
\* Base64, text that is no Base64, no text, a signature another key made
\* over the same bytes, a signature the same key made over other bytes
ForgedValues(i) ==
  {"AAAA", "%%%not-base64%%%", ""}
    \cup {EcdsaSign(id, canonicalize(heap, Ref(docs[i]), TRUE).str, 1) :
            id \in KeyIds \ {meta[i].by}}
    \cup {EcdsaSign(meta[i].by, "other bytes", 1)}

\* the caller replaces the proofValue of a signed document in place
ForgeProofValue(i, v) ==
  /\ ret = NoCall
  /\ Get(heap, Ref(docs[i]), "proof").t = "ref"
  /\ Get(heap, Get(heap, Ref(docs[i]), "proof"), "proofValue") # Str(v)
  /\ heap' = [heap EXCEPT ![Get(heap, Ref(docs[i]), "proof").a] =
                             SetField(@, "proofValue", Str(v))]
  /\ meta' = [meta EXCEPT ![i].edits = @ + 1]
  /\ UNCHANGED <<docs, ret, log, rng, clock>>

\* the caller has taken the result of the call and goes on
Continue ==
  /\ ret # NoCall
  /\ ret' = NoCall
  /\ log' = <<>>
  /\ UNCHANGED <<heap, docs, meta, rng, clock>>

\* the same content written with the properties in the opposite order at
\* every level
RECURSIVE Reversed(_)
Reversed(tr) ==
  IF tr.t = "obj"
  THEN [tr EXCEPT !.c = [n \in DOMAIN tr.c |->
                           Fld(tr.c[Len(tr.c) + 1 - n].key,
                               Reversed(tr.c[Len(tr.c) + 1 - n].val))]]
  ELSE IF tr.t = "arr"
  THEN [tr EXCEPT !.c = [n \in DOMAIN tr.c |-> Fld("", Reversed(tr.c[n].val))]]
  ELSE tr

\* the caller builds a document again, inserting the properties in another order
Rebuild(i) ==
  /\ ret = NoCall
  /\ Len(docs) < MaxDocs
  /\ meta[i].op = "input"
  /\ LET r == Parse(heap, Reversed(Stringify(heap, Ref(docs[i]))))
     IN /\ heap' = r.heap
        /\ docs' = Append(docs, r.val.a)
        /\ meta' = Append(meta,
                     [op |-> "rebuild", by |-> "", form |-> "", src |-> i,
                      snap |-> Stringify(r.heap, r.val),
                      inp |-> Stringify(heap, Ref(docs[i])),
                      valid |-> ValidDocument(heap, Ref(docs[i])), edits |-> 0])
  /\ UNCHANGED <<ret, log, rng, clock>>

\* signing and verifying
Next ==
  \/ \E i \in DOMAIN docs, key \in PrivateKeys : Sign(i, key)
  \/ \E i \in DOMAIN docs, key \in PrivateKeys : SignPresentation(i, key)
  \/ \E i \in DOMAIN docs, key \in PublicKeys : Verify(i, key)
  \/ \E i \in DOMAIN docs, key \in PublicKeys : VerifyPresentation(i, key)
  \/ \E i \in DOMAIN docs, x \in BOOLEAN : Canonicalize(i, x)
  \/ Continue

Spec == Init /\ [][Next]_vars

\* one document is signed, changed in place and verified
NextTamper ==
  \/ \E key \in PrivateKeys : Len(docs) = 1 /\ Sign(1, key)
  \/ \E key \in PrivateKeys : Len(docs) = 1 /\ SignPresentation(1, key)
  \/ /\ Edits(meta, Len(meta)) < MaxTamper
     /\ \E i \in {n \in DOMAIN docs : meta[n].by # ""} :
          \E a \in Reach(heap, Ref(docs[i])) :
            \E j \in DOMAIN heap[a].f : Tamper(i, a, j)
  \/ /\ Edits(meta, Len(meta)) < MaxTamper
     /\ \E i \in {n \in DOMAIN docs : meta[n].by # ""} :
          \E v \in ForgedValues(i) : ForgeProofValue(i, v)
  \/ \E i \in DOMAIN docs, key \in PublicKeys : Verify(i, key)
  \/ \E i \in DOMAIN docs, key \in PublicKeys : VerifyPresentation(i, key)
  \/ Continue

SpecTamper == Init /\ [][NextTamper]_vars

\* the canonicalizer alone, on documents and their rebuilt twins
NextCanon ==
  \/ \E i \in DOMAIN docs, x \in BOOLEAN : Canonicalize(i, x)
  \/ \E i \in DOMAIN docs : Rebuild(i)
  \/ Continue

SpecCanon == Init /\ [][NextCanon]_vars

(***************************************************************************)
(* Properties.                                                             *)
(***************************************************************************)
TUndef == [t |-> "undef", s |-> "", c |-> <<>>]
THas(tr, k) == tr.t = "obj" /\ \E n \in DOMAIN tr.c : tr.c[n].key = k
TGet(tr, k) ==
  IF THas(tr, k)
  THEN tr.c[CHOOSE n \in DOMAIN tr.c : tr.c[n].key = k].val
  ELSE TUndef
TWithout(tr, k) == [tr EXCEPT !.c = SelectSeq(@, LAMBDA e : e.key # k)]

VerifyOps == {"verify", "verifyPresentation"}
SignOps == {"sign", "signPresentation"}
SignedDocs == {i \in DOMAIN docs : meta[i].by # ""}

\* the document as it is now, as JSON
Now(i) == Stringify(heap, Ref(docs[i]))

\* a verify call on a signed document with the public key of its signer
VerifiedByMatching ==
  /\ ret.op \in VerifyOps
  /\ ret.arg \in SignedDocs
  /\ ret.key.id = meta[ret.arg].by

\* C1: a signed valid document verifies under the public key of the pair
\* that signed it, for sign/verify and for signPresentation/verifyPresentation.
RoundTrip ==
  (VerifiedByMatching /\ meta[ret.arg].valid /\ Now(ret.arg) = meta[ret.arg].snap)
    => (~ret.threw /\ ret.val = "true")

RoundTripSeen ==
  /\ VerifiedByMatching
  /\ ret.op = "verify"
  /\ meta[ret.arg].op = "sign"
  /\ meta[ret.arg].valid
  /\ ret.val = "true"

\* the content of a document: all of it but the proof
Content(tr) == TWithout(tr, "proof")

\* C2: once a non-proof field of a signed document has another value than
\* the one signed, verify with the matching public key returns false.
ContentTamperDetected ==
  (VerifiedByMatching /\ Content(Now(ret.arg)) # Content(meta[ret.arg].snap))
    => (~ret.threw /\ ret.val = "false")

ContentTamperSeen ==
  /\ VerifiedByMatching
  /\ meta[ret.arg].valid
  /\ Content(Now(ret.arg)) # Content(meta[ret.arg].snap)
  /\ ret.val = "false"

\* only proof metadata differs from what sign returned
MetadataChanged(i) ==
  /\ Content(Now(i)) = Content(meta[i].snap)
  /\ TGet(Now(i), "proof") # TGet(meta[i].snap, "proof")
  /\ TGet(TGet(Now(i), "proof"), "proofValue")
       = TGet(TGet(meta[i].snap, "proof"), "proofValue")

\* C3 as stated: a changed proof metadata field makes verify return false.
MetadataTamperDetected ==
  (VerifiedByMatching /\ MetadataChanged(ret.arg)) => ret.val = "false"

\* C3 amended: proof metadata is not part of the signed bytes; with only
\* proof metadata changed, a signed valid document still verifies.
MetadataNotCovered ==
  (VerifiedByMatching /\ MetadataChanged(ret.arg) /\ meta[ret.arg].valid)
    => (~ret.threw /\ ret.val = "true")

MetadataTamperSeen ==
  /\ VerifiedByMatching
  /\ MetadataChanged(ret.arg)
  /\ meta[ret.arg].valid
  /\ ret.val = "true"

\* C4: verifying a signed document with the public key of another pair
\* returns false and does not throw.
WrongKeyRejected ==
  (ret.op \in VerifyOps /\ ret.arg \in SignedDocs /\ ret.key.id # meta[ret.arg].by)
    => (~ret.threw /\ ret.val = "false")

WrongKeySeen ==
  /\ ret.op \in VerifyOps
  /\ ret.arg \in SignedDocs
  /\ meta[ret.arg].valid
  /\ ret.key.id # meta[ret.arg].by
  /\ ret.val = "false"

\* no proof field, an empty proof object, or a proof whose proofValue is
\* absent, null or empty
LacksProof(h, v) ==
  \/ ~HasKey(h[v.a], "proof")
  \/ Get(h, v, "proof") = NullV
  \/ /\ Get(h, v, "proof").t = "ref"
     /\ \/ ~HasKey(h[Get(h, v, "proof").a], "proofValue")
        \/ Get(h, Get(h, v, "proof"), "proofValue") \in {NullV, Str("")}

\* C5: verify and verifyPresentation return false on a document without a
\* proof, with an empty proof, or with a null, absent or empty proofValue.
MissingProofRejected ==
  (ret.op \in VerifyOps /\ LacksProof(heap, Ref(docs[ret.arg])))
    => (~ret.threw /\ ret.val = "false")

EmptyProofSeen ==
  /\ ret.op \in VerifyOps
  /\ HasKey(heap[docs[ret.arg]], "proof")
  /\ Get(heap, Ref(docs[ret.arg]), "proof").t = "ref"
  /\ LacksProof(heap, Ref(docs[ret.arg]))
  /\ ret.val = "false"

ProofValueOf(tr) == TGet(TGet(tr, "proof"), "proofValue")

\* two signed documents made from the same document with the same key
Twins(i, j) ==
  /\ i # j
  /\ meta[i].op = meta[j].op
  /\ meta[i].by = meta[j].by
  /\ meta[i].inp = meta[j].inp

\* C6: signing the same document twice with the same key gives two
\* different proofValue strings, and both documents verify.
FreshSignatures ==
  /\ \A i, j \in SignedDocs :
       Twins(i, j) => ProofValueOf(meta[i].snap) # ProofValueOf(meta[j].snap)
  /\ (/\ VerifiedByMatching
      /\ meta[ret.arg].valid
      /\ \E j \in SignedDocs : Twins(ret.arg, j))
       => ret.val = "true"

TwinsSeen ==
  /\ VerifiedByMatching
  /\ meta[ret.arg].valid
  /\ \E j \in SignedDocs : j < ret.arg /\ Twins(ret.arg, j)
  /\ ret.val = "true"

\* the same JSON content, whatever the order of the properties
RECURSIVE SameContent(_, _)
SameContent(x, y) ==
  /\ x.t = y.t
  /\ x.s = y.s
  /\ Len(x.c) = Len(y.c)
  /\ IF x.t = "arr"
     THEN \A n \in DOMAIN x.c : SameContent(x.c[n].val, y.c[n].val)
     ELSE \A n \in DOMAIN x.c :
            \E m \in DOMAIN y.c : /\ x.c[n].key = y.c[m].key
                                  /\ SameContent(x.c[n].val, y.c[m].val)

\* C7: documents with the same content canonicalize to the same string,
\* whatever the insertion order of their properties at any level.
OrderIndependent ==
  \A i, j \in DOMAIN docs :
    SameContent(Now(i), Now(j))
      => \A x \in BOOLEAN : canonicalize(heap, Ref(docs[i]), x).str
                              = canonicalize(heap, Ref(docs[j]), x).str

ReorderedSeen ==
  /\ ret.op = "canonicalize"
  /\ meta[ret.arg].op = "rebuild"
  /\ Now(ret.arg) # Now(meta[ret.arg].src)
  /\ ret.val = canonicalize(heap, Ref(docs[meta[ret.arg].src]), ret.excl).str

\* the canonical string of the same document with no proof field
WithoutProofField(i) ==
  canonicalize([heap EXCEPT ![docs[i]] = DeleteField(@, "proof")],
               Ref(docs[i]), FALSE).str

\* C8 as stated: whatever the value of the proof field, canonicalize with
\* proof exclusion gives the string of the document without a proof field,
\* and canonicalize without exclusion keeps the proof.
ProofExclusionEquivalence ==
  (ret.op = "canonicalize" /\ HasKey(heap[docs[ret.arg]], "proof")
     /\ ~IsClass(heap[docs[ret.arg]]))
    => IF ret.excl THEN ret.val = WithoutProofField(ret.arg)
       ELSE ret.val # WithoutProofField(ret.arg)

\* a call of the service has returned
Called == ret = NoCall /\ ret' # NoCall

\* C9: a call leaves every object the caller holds as it was, and what sign
\* returns shares no object with what the caller held before.
NoInPlaceChange ==
  [][Called =>
       /\ \A a \in DOMAIN heap : a \in DOMAIN heap' /\ heap'[a] = heap[a]
       /\ \A i \in DOMAIN docs : docs'[i] = docs[i]
       /\ ret'.out # 0 =>
            Reach(heap', Ref(docs'[ret'.out])) \cap DOMAIN heap = {}]_vars

ResignedSeen ==
  /\ ret.op \in SignOps
  /\ ret.out # 0
  /\ THas(meta[ret.out].inp, "proof")
  /\ Now(ret.arg) = meta[ret.out].inp

NonEmptyText(tr) == tr.t = "str" /\ tr.s # ""

\* C10: a document returned by sign or signPresentation carries a proof with
\* the five fields present and non-empty, the fixed type, and the purpose
\* assertionMethod (sign) or authentication (signPresentation).
ProofComplete ==
  \A i \in SignedDocs :
    LET p == TGet(meta[i].snap, "proof")
    IN /\ \A k \in {"type", "created", "verificationMethod", "proofPurpose",
                    "proofValue"} : NonEmptyText(TGet(p, k))
       /\ TGet(p, "type").s = "EcdsaSecp256r1Signature2019"
       /\ TGet(p, "proofPurpose").s =
            IF meta[i].op = "sign" THEN "assertionMethod" ELSE "authentication"

PresentationProofSeen ==
  /\ ret.op = "signPresentation"
  /\ ret.out # 0
  /\ TGet(TGet(meta[ret.out].snap, "proof"), "proofPurpose").s = "authentication"

(***************************************************************************)
(* The verification method of a fresh proof.                               *)
(***************************************************************************)
VerificationMethodOf(tr) == TGet(TGet(tr, "proof"), "verificationMethod")

\* the same heap with another issuer written into the credential at a
WithIssuer(h, a, x) == [h EXCEPT ![a] = SetField(@, "issuer", Str(x))]

\* what sign returns for the same credential under another issuer
SignedForIssuer(x) ==
  LET r == sign(WithIssuer(heap, docs[ret.arg], x), Ref(docs[ret.arg]),
                ret.key, clock, rng)
  IN Stringify(r.heap, r.val)

\* C11 as stated: the verification method of a credential's proof is derived
\* from its issuer, so that another issuer gives another verification
\* method; the one of a presentation's proof is <holder>#key-1, or a
\* placeholder when there is no holder.
VerificationMethodDerived ==
  /\ (ret.op = "sign" /\ ret.out # 0)
       => VerificationMethodOf(SignedForIssuer("did:example:other"))
            # VerificationMethodOf(meta[ret.out].snap)
  /\ (ret.op = "signPresentation" /\ ret.out # 0)
       => VerificationMethodOf(meta[ret.out].snap) =
            IF NonEmptyText(TGet(meta[ret.out].inp, "holder"))
            THEN TStr(TGet(meta[ret.out].inp, "holder").s \o "#key-1")
            ELSE TStr("did:example:holder#key-1")

(***************************************************************************)
(* VCBuilder and the VerifiableCredential it fills.  The builder's draft,  *)
(* this.vc, is the object at address 1; the caller's second variable holds *)
(* what the last build() or toJSON() returned.                             *)
(***************************************************************************)
MaxItems == 2     \* entries a builder list (@context, type, credentials) gets

Draft == 1

ArrayCell(items) == [kind |-> "Array", f |-> [i \in DOMAIN items |-> Fld("", items[i])]]

\* this.k = v on the object at address a
Set(h, a, k, v) == [h EXCEPT ![a] = SetField(@, k, v)]

\* this.k = [..]: the caller's array literal is a new object
SetArray(h, a, k, items) == Set(Append(h, ArrayCell(items)), a, k, Ref(Len(h) + 1))

\* array.push(x)
Push(h, arr, x) == [h EXCEPT ![arr.a].f = Append(@, Fld("", x))]

\* array.length of a value that is an array
Length(h, arr) == Len(h[arr.a].f)

\* new VCBuilder(): a credential with empty @context and type lists
NewVCBuilder ==
  SetArray(SetArray(<<NewVerifiableCredential([kind |-> "Object", f |-> <<>>])>>,
                    Draft, "@context", <<>>),
           Draft, "type", <<>>)

VCErrors ==
  [context |-> "Verifiable Credential must have at least one context",
   type |-> "Verifiable Credential must have at least one type",
   issuer |-> "Verifiable Credential must have an issuer",
   validFrom |-> "Verifiable Credential must have an issuance date",
   credentialSubject |-> "Verifiable Credential must have a credential subject"]

\* getIssuanceDate / getValidFrom, getExpirationDate / getValidUntil
getValidFrom(h, vc) == Get(h, vc, "validFrom")
getIssuanceDate(h, vc) == Get(h, vc, "validFrom")
getValidUntil(h, vc) == Get(h, vc, "validUntil")
getExpirationDate(h, vc) == Get(h, vc, "validUntil")

\* setIssuanceDate as the first version of the class has it: a field of its own
setIssuanceDateOwnField(h, vc, v) == Set(h, vc.a, "issuanceDate", v)

setIssuanceDate(h, vc, v) == Set(h, vc.a, "validFrom", v)

setValidFrom(h, vc, v) == Set(h, vc.a, "validFrom", v)

setExpirationDate(h, vc, v) == Set(h, vc.a, "validUntil", v)

setValidUntil(h, vc, v) == Set(h, vc.a, "validUntil", v)

\* !list || list.length === 0
Empty(h, list) == ~Truthy(list) \/ Length(h, list) = 0

\* a build that looks at the credential subject before the issuer
VCBuilderBuildSubjectFirst(h) ==
  LET vc == Ref(Draft)
  IN IF Empty(h, Get(h, vc, "@context")) THEN VCErrors.context
     ELSE IF Empty(h, Get(h, vc, "type")) THEN VCErrors.type
     ELSE IF ~Truthy(Get(h, vc, "credentialSubject")) THEN VCErrors.credentialSubject
     ELSE IF ~Truthy(Get(h, vc, "issuer")) THEN VCErrors.issuer
     ELSE IF ~Truthy(getIssuanceDate(h, vc)) THEN VCErrors.validFrom
     ELSE ""

\* VCBuilder.build: the error thrown, or "" when this.vc is returned
VCBuilderBuild(h) ==
  LET vc == Ref(Draft)
  IN IF Empty(h, Get(h, vc, "@context")) THEN VCErrors.context
     ELSE IF Empty(h, Get(h, vc, "type")) THEN VCErrors.type
     ELSE IF ~Truthy(Get(h, vc, "issuer")) THEN VCErrors.issuer
     ELSE IF ~Truthy(getIssuanceDate(h, vc)) THEN VCErrors.validFrom
     ELSE IF ~Truthy(Get(h, vc, "credentialSubject")) THEN VCErrors.credentialSubject
     ELSE ""

InitVCBuilder ==
  /\ heap = NewVCBuilder
  /\ docs = <<Draft>>
  /\ meta = <<>>
  /\ ret = NoCall
  /\ log = <<>>
  /\ rng = 0
  /\ clock = 0

\* a builder or entity method has run and returned this
Done(h) ==
  LET g == Collect(h, docs)
  IN /\ ret = NoCall
     /\ heap' = g.heap
     /\ docs' = g.roots
     /\ UNCHANGED <<meta, ret, log, rng, clock>>

\* a method has thrown, or has returned a value the caller keeps
Result(op, h, threw, val, roots) ==
  LET g == Collect(h, roots)
  IN /\ ret = NoCall
     /\ heap' = g.heap
     /\ docs' = g.roots
     /\ ret' = [op |-> op, arg |-> 1, key |-> NoKey, excl |-> FALSE,
                threw |-> threw, val |-> val,
                out |-> IF threw THEN 0 ELSE Len(roots)]
     /\ UNCHANGED <<meta, log, rng, clock>>

\* setter(v) of the builder or of the credential: this.vc.k = v
SetDraft(k, v) == Done(Set(heap, Draft, k, v))

\* context([..]) / type([..]) / verifiableCredential([..])
SetDraftList(k, items) == Done(SetArray(heap, Draft, k, items))

\* addContext(x) / addType(x): this.vc.getK().push(x)
AddToDraft(op, k, x) ==
  LET list == Get(heap, Ref(Draft), k)
  IN IF list.t # "ref"
     THEN Result(op, heap, TRUE, "TypeError", docs)
     ELSE Length(heap, list) < MaxItems /\ Done(Push(heap, list, x))

\* a date setter of the credential (the builder's issuanceDate and
\* expirationDate call setIssuanceDate and setExpirationDate); returns this
SetDate(op, h, v) == Result(op, h, FALSE, v.s, docs)

\* the methods the VCBuilder class defines
VCBuilderMethods ==
  {"context", "addContext", "type", "addType", "id", "issuer", "issuanceDate",
   "expirationDate", "credentialSubject", "build"}

\* builder.name(v) for a date of validity start: issuanceDate(v) calls
\* this.vc.setIssuanceDate(v) and returns the builder; a name the class does
\* not define is undefined, and calling it throws a TypeError
BuilderDate(name, v) ==
  IF name \in VCBuilderMethods
  THEN SetDate(name, setIssuanceDate(heap, Ref(Draft), v), v)
  ELSE Result(name, heap, TRUE, "TypeError", docs)

VCBuild ==
  LET e == VCBuilderBuild(heap)
  IN Result("build", heap, e # "", e, <<Draft, Draft>>)

\* vc.toJSON(): a new plain object that shares the values of the fields
ToJSON ==
  LET r == ToJSONOrSelf(heap, Ref(Draft))
  IN Result("toJSON", r.heap, FALSE, "", <<Draft, r.val.a>>)

\* the caller drops what the call returned and goes on with the draft
Release ==
  LET g == Collect(heap, <<Draft>>)
  IN /\ ret # NoCall
     /\ ret' = NoCall
     /\ heap' = g.heap
     /\ docs' = g.roots
     /\ UNCHANGED <<meta, log, rng, clock>>

ContextUri == "https://www.w3.org/ns/credentials/v2"
Subject == TObj(<<Fld("id", TStr("did:example:B"))>>)
Dates == {Str("2020-01-01T00:00:00Z"), Str("2030-01-01T00:00:00Z")}

\* the lists a caller passes to type([..])
CredentialTypes ==
  {<<>>, <<Str("VerifiableCredential")>>, <<Str("UniversityDegreeCredential")>>}

\* credentialSubject(obj): the caller's object literal is a new object
SetSubject ==
  LET r == Parse(heap, Subject)
  IN Done(Set(r.heap, Draft, "credentialSubject", r.val))

NextVCBuilder ==
  \/ \E c \in {<<>>, <<Str(ContextUri)>>} : SetDraftList("@context", c)
  \/ SetDraft("@context", NullV)
  \/ AddToDraft("addContext", "@context", Str(ContextUri))
  \/ \E c \in CredentialTypes : SetDraftList("type", c)
  \/ SetDraft("type", NullV)
  \/ AddToDraft("addType", "type", Str("VerifiableCredential"))
  \/ SetDraft("id", Str("http://example.edu/credentials/1872"))
  \/ \E v \in {Str("did:example:A"), NullV} : SetDraft("issuer", v)
  \/ \E v \in Dates \cup {NullV} :
       SetDate("setValidFrom", setValidFrom(heap, Ref(Draft), v), v)
  \/ \E v \in Dates \cup {NullV} :
       SetDate("setIssuanceDate", setIssuanceDate(heap, Ref(Draft), v), v)
  \/ \E v \in Dates \cup {NullV} :
       SetDate("setValidUntil", setValidUntil(heap, Ref(Draft), v), v)
  \/ \E v \in Dates \cup {NullV} :
       SetDate("setExpirationDate", setExpirationDate(heap, Ref(Draft), v), v)
  \/ \E v \in Dates, name \in {"issuanceDate", "validFrom"} : BuilderDate(name, v)
  \/ SetSubject
  \/ SetDraft("credentialSubject", NullV)
  \/ VCBuild
  \/ ToJSON
  \/ Release

SpecVCBuilder == InitVCBuilder /\ [][NextVCBuilder]_vars

(***************************************************************************)
(* Properties of VCBuilder and VerifiableCredential.                       *)
(***************************************************************************)
\* the field k of the draft has no value, or is a list without entries
Missing(k) ==
  LET v == Get(heap, Ref(Draft), k)
  IN v = NullV \/ v = Undef \/ (v.t = "ref" /\ heap[v.a].kind = "Array" /\ heap[v.a].f = <<>>)

\* what build() requires, in the order it reports it
Required == <<"@context", "type", "issuer", "validFrom", "credentialSubject">>
RequiredName ==
  [n \in 1..5 |-> <<"context", "type", "issuer", "validFrom", "credentialSubject">>[n]]
MissingOnes == SelectSeq([n \in 1..5 |-> n], LAMBDA n : Missing(Required[n]))

\* C12: VCBuilder.build() returns the credential exactly when no required
\* field is missing, and otherwise throws the error of the first missing
\* field in the order context, type, issuer, validFrom, credentialSubject.
BuildValidates ==
  ret.op = "build" =>
    IF MissingOnes = <<>>
    THEN ~ret.threw /\ docs[ret.out] = Draft
    ELSE ret.threw /\ ret.val = VCErrors[RequiredName[MissingOnes[1]]]

FirstMissingSeen ==
  /\ ret.op = "build"
  /\ Len(MissingOnes) >= 2
  /\ MissingOnes[1] = 3
  /\ ret.threw
  /\ ret.val = "Verifiable Credential must have an issuer"

\* the text of a date value, "" for none
DateText(v) == IF v.t = "str" THEN v.s ELSE ""

\* the object the last call returned
Returned2 == heap[docs[ret.out]]

\* C20: issuanceDate / validFrom and expirationDate / validUntil are two
\* names of one value each: whichever setter wrote last, both getters return
\* what it wrote, and toJSON emits the value as validFrom / validUntil only.
DatesAliased ==
  LET vc == Ref(Draft)
  IN /\ getIssuanceDate(heap, vc) = getValidFrom(heap, vc)
     /\ getExpirationDate(heap, vc) = getValidUntil(heap, vc)
     /\ ret.op \in {"setValidFrom", "setIssuanceDate"}
          => /\ DateText(getValidFrom(heap, vc)) = ret.val
             /\ DateText(getIssuanceDate(heap, vc)) = ret.val
     /\ ret.op \in {"setValidUntil", "setExpirationDate"}
          => /\ DateText(getValidUntil(heap, vc)) = ret.val
             /\ DateText(getExpirationDate(heap, vc)) = ret.val
     /\ ret.op = "toJSON"
          => /\ ~HasKey(Returned2, "issuanceDate")
             /\ ~HasKey(Returned2, "expirationDate")
             /\ \A k \in {"validFrom", "validUntil"} :
                  IF Get(heap, vc, k).t = "str"
                  THEN Get(heap, Ref(docs[ret.out]), k) = Get(heap, vc, k)
                  ELSE ~HasKey(Returned2, k)

LegacySetterSeen ==
  /\ ret.op = "setIssuanceDate"
  /\ ret.val # ""
  /\ getValidFrom(heap, Ref(Draft)) = Str(ret.val)

(***************************************************************************)
(* VPBuilder and the VerifiablePresentation it fills; this.vp is the       *)
(* object at address 1.                                                    *)
(***************************************************************************)
VerifiablePresentationFields ==
  <<"@context", "type", "id", "holder", "verifiableCredential", "proof">>

\* new VerifiablePresentation(): the lists are set by the builder right away
NewVerifiablePresentation ==
  [kind |-> "VerifiablePresentation",
   f |-> [i \in DOMAIN VerifiablePresentationFields |->
            Fld(VerifiablePresentationFields[i], NullV)]]

\* new VPBuilder(): the v2.0 context, no type, no credential
NewVPBuilder ==
  SetArray(SetArray(SetArray(<<NewVerifiablePresentation>>,
                             Draft, "@context", <<Str(ContextUri)>>),
                    Draft, "type", <<>>),
           Draft, "verifiableCredential", <<>>)

Marker == "VerifiablePresentation"

\* array.includes(x)
Includes(h, arr, x) == \E n \in DOMAIN h[arr.a].f : h[arr.a].f[n].val = x

\* an add that starts a new list every time
AddToNewList(h, vp, k, x) == SetArray(h, vp.a, k, <<x>>)

\* VerifiablePresentation.addType / addVerifiableCredential: the field k
\* becomes a new list when it is not one, then x is pushed
AddTo(h, vp, k, x) ==
  IF Get(h, vp, k).t = "ref" /\ h[Get(h, vp, k).a].kind = "Array"
  THEN Push(h, Get(h, vp, k), x)
  ELSE SetArray(h, vp.a, k, <<x>>)

\* a build that adds the marker before it validates
VPBuilderBuildMarkerFirst(h) ==
  LET vp == Ref(Draft)
      h1 == IF Get(h, vp, "type").t = "ref" /\ ~Includes(h, Get(h, vp, "type"), Str(Marker))
            THEN AddTo(h, vp, "type", Str(Marker)) ELSE h
  IN IF ~Truthy(Get(h, vp, "holder"))
     THEN [heap |-> h1, threw |-> TRUE, val |-> "Holder is required"]
     ELSE IF Empty(h, Get(h, vp, "verifiableCredential"))
     THEN [heap |-> h1, threw |-> TRUE,
           val |-> "At least one verifiable credential is required"]
     ELSE IF Get(h, vp, "type").t # "ref"
     THEN [heap |-> h, threw |-> TRUE, val |-> "TypeError"]
     ELSE [heap |-> h1, threw |-> FALSE, val |-> ""]

\* VPBuilder.build
VPBuilderBuild(h) ==
  LET vp == Ref(Draft)
  IN IF ~Truthy(Get(h, vp, "holder"))
     THEN [heap |-> h, threw |-> TRUE, val |-> "Holder is required"]
     ELSE IF Empty(h, Get(h, vp, "verifiableCredential"))
     THEN [heap |-> h, threw |-> TRUE,
           val |-> "At least one verifiable credential is required"]
     ELSE IF Get(h, vp, "type").t # "ref"
     THEN [heap |-> h, threw |-> TRUE, val |-> "TypeError"]
     ELSE IF ~Includes(h, Get(h, vp, "type"), Str(Marker))
     THEN [heap |-> AddTo(h, vp, "type", Str(Marker)), threw |-> FALSE, val |-> ""]
     ELSE [heap |-> h, threw |-> FALSE, val |-> ""]

InitVPBuilder ==
  /\ heap = NewVPBuilder
  /\ docs = <<Draft>>
  /\ meta = <<>>
  /\ ret = NoCall
  /\ log = <<>>
  /\ rng = 0
  /\ clock = 0

VPBuild ==
  LET r == VPBuilderBuild(heap)
  IN Result("build", r.heap, r.threw, r.val, <<Draft, Draft>>)

\* addCredential(credential): the credential is an object of the caller
AddCredential ==
  LET r == Parse(heap, TObj(Short))
      list == Get(heap, Ref(Draft), "verifiableCredential")
  IN /\ list.t = "ref" => Length(heap, list) < MaxItems
     /\ Done(AddTo(r.heap, Ref(Draft), "verifiableCredential", r.val))

PresentationTypes == {Str(Marker), Str("CustomPresentation")}

NextVPBuilder ==
  \/ SetDraft("@context", NullV)
  \/ AddToDraft("addContext", "@context", Str(ContextUri))
  \/ \E c \in {<<>>} \cup {<<t>> : t \in PresentationTypes} : SetDraftList("type", c)
  \/ SetDraft("type", NullV)
  \/ \E t \in PresentationTypes : AddToDraft("addType", "type", t)
  \/ SetDraft("id", Str("urn:uuid:presentation-1"))
  \/ \E v \in {Str("did:example:H"), NullV} : SetDraft("holder", v)
  \/ SetDraftList("verifiableCredential", <<>>)
  \/ SetDraft("verifiableCredential", NullV)
  \/ AddCredential
  \/ VPBuild
  \/ Release

SpecVPBuilder == InitVPBuilder /\ [][NextVPBuilder]_vars

(***************************************************************************)
(* Properties of VPBuilder.                                                *)
(***************************************************************************)
\* a call of build() has returned or thrown in this step
Built == ret = NoCall /\ ret'.op = "build"

\* the entries of the draft's type list
TypeList(h) == h[Get(h, Ref(Draft), "type").a].f

\* C13: VPBuilder.build() throws 'Holder is required' without a holder,
\* else 'At least one verifiable credential is required' without a
\* credential; it returns the presentation only when both are there, and a
\* build that throws leaves the draft, its type list included, as it was.
PresentationValidated ==
  /\ [](ret.op = "build" =>
          IF Missing("holder")
          THEN ret.threw /\ ret.val = "Holder is required"
          ELSE IF Missing("verifiableCredential")
          THEN ret.threw /\ ret.val = "At least one verifiable credential is required"
          ELSE ~ret.threw => docs[ret.out] = Draft)
  /\ [][(Built /\ ret'.threw) => heap' = heap]_vars

NoCredentialSeen ==
  /\ ret.op = "build"
  /\ ret.threw
  /\ ret.val = "At least one verifiable credential is required"
  /\ Get(heap, Ref(Draft), "type").t = "ref"
  /\ ~Includes(heap, Get(heap, Ref(Draft), "type"), Str(Marker))

\* C14: after a build() that succeeds the type list of the presentation
\* includes 'VerifiablePresentation', appended when it was not there, and
\* the types the caller gave are all still in it.
TypeCompleted ==
  [][(Built /\ ~ret'.threw) =>
       /\ Includes(heap', Get(heap', Ref(Draft), "type"), Str(Marker))
       /\ TypeList(heap') =
            IF Includes(heap, Get(heap, Ref(Draft), "type"), Str(Marker))
            THEN TypeList(heap)
            ELSE Append(TypeList(heap), Fld("", Str(Marker)))]_vars

MarkerAppendedSeen ==
  /\ ret.op = "build"
  /\ ~ret.threw
  /\ Len(TypeList(heap)) = MaxItems + 1
  /\ TypeList(heap)[1].val = Str("CustomPresentation")
  /\ TypeList(heap)[MaxItems + 1].val = Str(Marker)

(***************************************************************************)
(* Key material of every kind a caller can hand over.                      *)
(***************************************************************************)
\* the curve of a key pair: K3 was generated on another curve
Curve(id) == IF id = "K3" THEN "P-384" ELSE EC_CURVE_NAME

\* generateKeyPair(): both keys as Base64 DER, on the configured curve
generateKeyPair(id) ==
  [publicKey |-> Base64Key("public", id), privateKey |-> Base64Key("private", id)]

\* createWallet(): the pair of generateKeyPair and a DID
createWallet(id) ==
  [did |-> "did:example:" \o id,
   publicKey |-> generateKeyPair(id).publicKey,
   privateKey |-> generateKeyPair(id).privateKey]

\* a string that does not decode to a key
GarbageKey == [form |-> "string", role |-> "garbage", id |-> ""]

\* a well-formed key: a native handle, or the Base64 DER of a key
WellFormed(key, type) == key.role = type /\ key.form \in {"KeyObject", "string"}

SigningKeys ==
  {KeyObject("private", "K1"),
   generateKeyPair("K1").privateKey,
   createWallet("K2").privateKey,
   Base64Key("private", "K3"),          \* a P-384 key
   generateKeyPair("K1").publicKey,     \* the key of the other role
   KeyObject("public", "K2"),           \* a handle the primitive cannot sign with
   GarbageKey}

VerifyingKeys ==
  {KeyObject("public", "K1"),
   generateKeyPair("K1").publicKey,
   createWallet("K2").publicKey,
   GarbageKey}

\* the given document is signed and verified with keys of every form; the
\* caller signs at most MaxDocs - 1 times, a call that throws included
NextKeys ==
  \/ \E key \in SigningKeys : clock < MaxDocs - 1 /\ Sign(1, key)
  \/ \E key \in SigningKeys : clock < MaxDocs - 1 /\ SignPresentation(1, key)
  \/ \E i \in DOMAIN docs, key \in VerifyingKeys : Verify(i, key)
  \/ \E i \in DOMAIN docs, key \in VerifyingKeys : VerifyPresentation(i, key)
  \/ Continue

SpecKeys == Init /\ [][NextKeys]_vars

(***************************************************************************)
(* Properties of the key normalizer.                                       *)
(***************************************************************************)
\* C15: a native key handle and the Base64 DER string of the same key are
\* interchangeable: the normalizer returns a handle as it is and turns a
\* string into the handle of the same key, sign accepts the private key in
\* either form, and verify answers the same whichever forms were used.
KeyFormsInterchangeable ==
  /\ \A role \in {"private", "public"}, id \in KeyIds :
       /\ getKeyObject(KeyObject(role, id), role) =
            [threw |-> FALSE, key |-> KeyObject(role, id)]
       /\ getKeyObject(Base64Key(role, id), role) =
            [threw |-> FALSE, key |-> KeyObject(role, id)]
  /\ (ret.op \in SignOps /\ WellFormed(ret.key, "private"))
       => (~ret.threw /\ meta[ret.out].by = ret.key.id)
  /\ (ret.op \in VerifyOps /\ ret.arg \in SignedDocs /\ meta[ret.arg].valid
        /\ WellFormed(ret.key, "public"))
       => (~ret.threw /\ (ret.val = "true" <=> ret.key.id = meta[ret.arg].by))

CrossFormSeen ==
  /\ ret.op \in VerifyOps
  /\ ret.arg \in SignedDocs
  /\ meta[ret.arg].valid
  /\ meta[ret.arg].form = "string"
  /\ ret.key.form = "KeyObject"
  /\ ret.val = "true"

\* C16 as stated: sign with a Base64 string that is not a private key of
\* the configured curve P-256 (not a key, a key of the other role, a key on
\* another curve) throws and returns no signed document.
KeyFormatChecked ==
  (ret.op \in SignOps /\ ret.key.form = "string"
     /\ (ret.key.role # "private" \/ Curve(ret.key.id) # EC_CURVE_NAME))
    => (ret.threw /\ ret.out = 0)

(***************************************************************************)
(* Properties of verify on replaced signatures.                            *)
(***************************************************************************)
\* the proofValue of a signed document is a string other than the one sign
\* put there
SignatureReplaced(i) ==
  /\ ProofValueOf(Now(i)).t = "str"
  /\ ProofValueOf(Now(i)) # ProofValueOf(meta[i].snap)

\* C17: once the proofValue of a signed document has been replaced by
\* another string that is no signature of the matching key over its
\* canonical bytes (other valid Base64, malformed Base64), verify with the
\* matching public key returns false and does not throw.
ForgedSignatureRejected ==
  (VerifiedByMatching /\ SignatureReplaced(ret.arg))
    => (~ret.threw /\ ret.val = "false")

MalformedSignatureSeen ==
  /\ VerifiedByMatching
  /\ meta[ret.arg].valid
  /\ Content(Now(ret.arg)) = Content(meta[ret.arg].snap)
  /\ ProofValueOf(Now(ret.arg)) = TStr("%%%not-base64%%%")
  /\ ~ret.threw
  /\ ret.val = "false"

(***************************************************************************)
(* Properties of verify on documents from the wire.                        *)
(***************************************************************************)
\* C18 as stated: with a public key that can be parsed, verify and
\* verifyPresentation return a boolean and do not throw, whatever the
\* document and its proof hold.
VerifyNeverThrows ==
  (ret.op \in VerifyOps /\ ~getKeyObject(ret.key, "public").threw)
    => (~ret.threw /\ ret.val \in {"true", "false"})

(***************************************************************************)
(* The Proof class: the constructor, the setters and toJSON on an          *)
(* instance the caller holds.                                              *)
(***************************************************************************)
ProofFields == <<"type", "created", "verificationMethod", "proofPurpose", "proofValue">>

\* x || null
OrNull(x) == IF Truthy(x) THEN x ELSE NullV

\* new Proof(type, created, verificationMethod, proofPurpose, proofValue)
ProofConstructor(args) ==
  [kind |-> "Proof",
   f |-> [n \in DOMAIN ProofFields |-> Fld(ProofFields[n], OrNull(args[n]))]]

\* the instance as the record of its five fields
ProofOf(cell) ==
  [type |-> cell.f[1].val, created |-> cell.f[2].val,
   verificationMethod |-> cell.f[3].val, proofPurpose |-> cell.f[4].val,
   proofValue |-> cell.f[5].val]

ProofTexts ==
  <<PROOF_TYPE, ISOString(0), "did:example:123#key-1", PROOF_PURPOSE, "AAAA">>

\* what a caller passes for the n-th field: nothing, null, the empty
\* string, a text
Passed(n) == {Undef, NullV, Str(""), Str(ProofTexts[n])}

InitProof ==
  /\ \E args \in [DOMAIN ProofFields -> UNION {Passed(n) : n \in DOMAIN ProofFields}] :
       /\ \A n \in DOMAIN ProofFields : args[n] \in Passed(n)
       /\ heap = <<ProofConstructor(args)>>
  /\ docs = <<Draft>>
  /\ meta = <<>>
  /\ ret = NoCall
  /\ log = <<>>
  /\ rng = 0
  /\ clock = 0

\* setType(v) .. setProofValue(v): this.k = v; returns this
SetProofField(n, v) == Done(Set(heap, Draft, ProofFields[n], v))

\* proof.toJSON(): a new plain object
ProofSerialize ==
  Result("toJSON",
         Append(heap, [kind |-> "Object", f |-> ProofToJSON(ProofOf(heap[Draft]))]),
         FALSE, "", <<Draft, Len(heap) + 1>>)

NextProof ==
  \/ \E n \in DOMAIN ProofFields : \E v \in Passed(n) : SetProofField(n, v)
  \/ ProofSerialize
  \/ Release

SpecProof == InitProof /\ [][NextProof]_vars

\* the field of the instance has a value: it is neither null nor undefined
IsSet(v) == v.t \notin {"null", "undef"}

\* the value the n-th field of the instance has
FieldValue(n) == Get(heap, Ref(Draft), ProofFields[n])

\* the object toJSON returned holds exactly the fields of the instance
\* numbered in kept, with their values, and no null
SparseBy(kept) ==
  /\ \A n \in DOMAIN ProofFields :
       IF n \in kept
       THEN Get(heap, Ref(docs[ret.out]), ProofFields[n]) = FieldValue(n)
       ELSE ~HasKey(Returned2, ProofFields[n])
  /\ \A e \in DOMAIN Returned2.f :
       /\ Returned2.f[e].val.t # "null"
       /\ \E n \in DOMAIN ProofFields : Returned2.f[e].key = ProofFields[n]

\* C19 as stated: toJSON returns exactly the fields whose value is set,
\* and no field with a null value.
ProofSparse ==
  ret.op = "toJSON" => SparseBy({n \in DOMAIN ProofFields : IsSet(FieldValue(n))})

\* C19 amended: toJSON returns exactly the fields whose value is a
\* non-empty text, and no field with a null value; a field set to the
\* empty string is left out like a null one.
ProofSparseTruthy ==
  ret.op = "toJSON" => SparseBy({n \in DOMAIN ProofFields : Truthy(FieldValue(n))})

EmptyTextLeftOut ==
  /\ ret.op = "toJSON"
  /\ Get(heap, Ref(Draft), "type") = Str("")
  /\ Get(heap, Ref(Draft), "proofValue") = NullV
  /\ Truthy(Get(heap, Ref(Draft), "created"))
  /\ ~HasKey(Returned2, "type")
  /\ HasKey(Returned2, "created")

(***************************************************************************)
(* Properties of the credential a VCBuilder builds.                        *)
(***************************************************************************)
\* C21 as stated: the builder takes the validity start under either name;
\* validFrom(t) like issuanceDate(t) returns without throwing and leaves t
\* as the validFrom of the credential.
ValidFromAccepted ==
  ret.op \in {"validFrom", "issuanceDate"}
    => (~ret.threw /\ getValidFrom(heap, Ref(Draft)) = Str(ret.val))

\* C22 as stated: a credential build() returns has a type list with at
\* least one entry that includes 'VerifiableCredential'.
BuiltHasMarker ==
  (ret.op = "build" /\ ~ret.threw)
    => LET type == Get(heap, Ref(docs[ret.out]), "type")
       IN /\ type.t = "ref"
          /\ Length(heap, type) >= 1
          /\ \E n \in DOMAIN heap[type.a].f :
               heap[type.a].f[n].val = Str("VerifiableCredential")

(***************************************************************************)
(* Properties of the order of the steps of verify.                         *)
(***************************************************************************)
\* C25: verify looks at the proof first.  With a public key that cannot be
\* parsed, a document without proof or without proofValue gets false, with
\* no exception and no audit line; a document with a proofValue makes the
\* call throw.
ProofCheckFirst ==
  (ret.op \in VerifyOps /\ getKeyObject(ret.key, "public").threw)
    => IF NoProofValue(heap, Ref(docs[ret.arg]))
       THEN ~ret.threw /\ ret.val = "false" /\ log = <<>>
       ELSE ret.threw

UnparseableKeyNotReached ==
  /\ ret.op = "verify"
  /\ ret.key = GarbageKey
  /\ NoProofValue(heap, Ref(docs[ret.arg]))
  /\ ~ret.threw
  /\ ret.val = "false"

(***************************************************************************)
(* verify and verifyPresentation compared.                                 *)
(***************************************************************************)
\* what a verifying call gives back: whether it threw, and its answer
Outcome(r) == <<r.threw, r.val>>

\* C29: verify and verifyPresentation are the same predicate: on every
\* document and key both give the same outcome, a proof made by sign is
\* accepted by verifyPresentation, and one made by signPresentation by verify.
SamePredicate ==
  /\ \A i \in DOMAIN docs, key \in PublicKeys :
       Outcome(verify(heap, Ref(docs[i]), key))
         = Outcome(verifyPresentation(heap, Ref(docs[i]), key))
  /\ (/\ VerifiedByMatching
      /\ meta[ret.arg].valid
      /\ Now(ret.arg) = meta[ret.arg].snap
      /\ \/ ret.op = "verifyPresentation" /\ meta[ret.arg].op = "sign"
         \/ ret.op = "verify" /\ meta[ret.arg].op = "signPresentation")
       => (~ret.threw /\ ret.val = "true")

CrossAcceptedSeen ==
  /\ VerifiedByMatching
  /\ ret.op = "verifyPresentation"
  /\ meta[ret.arg].op = "sign"
  /\ TGet(TGet(Now(ret.arg), "proof"), "proofPurpose") = TStr(PROOF_PURPOSE)
  /\ ret.val = "true"

(***************************************************************************)
(* The bytes sign signs and the bytes verify recomputes.                   *)
(***************************************************************************)
\* canonicalize applied to a document given as JSON
CanonicalOf(tr, excludeProof) ==
  LET d == Parse(<<>>, tr) IN canonicalize(d.heap, d.val, excludeProof).str

\* C30 as stated: for every input document, one with a null or empty proof
\* field included, the string sign signs (the input canonicalized with the
\* proof excluded) is the string verify recomputes from the returned
\* document (its copy canonicalized with the proof deleted), and the
\* returned document verifies under the matching key.
SignedBytesVerified ==
  /\ \A i \in SignedDocs :
       CanonicalOf(meta[i].inp, TRUE)
         = CanonicalOf(TWithout(meta[i].snap, "proof"), FALSE)
  /\ (VerifiedByMatching /\ Now(ret.arg) = meta[ret.arg].snap)
       => (~ret.threw /\ ret.val = "true")

(***************************************************************************)
(* Properties of signing a signed document again.                          *)
(***************************************************************************)
\* document r was made by signing the signed document s with another key
Resigned(r, s) ==
  /\ r \in SignedDocs
  /\ s \in SignedDocs
  /\ meta[r].src = s
  /\ meta[r].by # meta[s].by

\* C26: signing a signed document S again with another key gives a new
\* document with the content of S and one proof, a signature of the new key
\* over that content without the old proof; the new document verifies under
\* the new public key and not under the old one, and S is unchanged and
\* still verifies under the key that signed it.
ResignReplacesProof ==
  /\ \A r, s \in DOMAIN docs :
       Resigned(r, s) =>
         /\ Content(meta[r].snap) = Content(meta[s].snap)
         /\ \E n \in Nonces :
              ProofValueOf(meta[r].snap) =
                TStr(EcdsaSign(meta[r].by, CanonicalOf(Content(meta[s].snap), FALSE), n))
         /\ ProofValueOf(meta[r].snap) # ProofValueOf(meta[s].snap)
         /\ Now(s) = meta[s].snap
  /\ (/\ ret.op \in VerifyOps
      /\ \E s \in DOMAIN docs : Resigned(ret.arg, s))
       => (~ret.threw /\ (ret.val = "true" <=> ret.key.id = meta[ret.arg].by))
  /\ (/\ VerifiedByMatching
      /\ meta[ret.arg].valid
      /\ \E r \in DOMAIN docs : Resigned(r, ret.arg))
       => (~ret.threw /\ ret.val = "true")

ResignedVerifiedSeen ==
  /\ VerifiedByMatching
  /\ \E s \in DOMAIN docs : Resigned(ret.arg, s)
  /\ ret.val = "true"

(***************************************************************************)
(* Properties of a sign call that fails.                                   *)
(***************************************************************************)
\* the key cannot be normalized, or the signing primitive cannot use it
SignFails(key) ==
  \/ getKeyObject(key, "private").threw
  \/ getKeyObject(key, "private").key.role # "private"

\* the proof of the document has all five fields, each a non-empty text
ProofFull(tr) ==
  /\ TGet(tr, "proof").t = "obj"
  /\ \A n \in DOMAIN ProofFields :
       /\ TGet(TGet(tr, "proof"), ProofFields[n]).t = "str"
       /\ TGet(TGet(tr, "proof"), ProofFields[n]).s # ""

ProofInvariant ==
  Truthy(FieldValue(5)) => \A n \in 1..4 : Truthy(FieldValue(n))

(***************************************************************************)
(* A builder that is used again after build(): the caller keeps the        *)
(* document build() returned in docs[2] and goes on calling the builder.   *)
(* meta holds the JSON of the document as it was when build() returned.    *)
(***************************************************************************)
InitBuilt ==
  /\ heap \in {NewVCBuilder, NewVPBuilder}
  /\ docs = <<Draft>>
  /\ meta = <<>>
  /\ ret = NoCall
  /\ log = <<>>
  /\ rng = 0
  /\ clock = 0

IsVCBuilder == heap[Draft].kind = "VerifiableCredential"
IsVPBuilder == heap[Draft].kind = "VerifiablePresentation"

\* the caller takes what the call returned; a document build() returned is
\* kept from then on
Keep ==
  /\ ret # NoCall
  /\ ret' = NoCall
  /\ meta' = IF ret.op = "build" /\ ~ret.threw /\ meta = <<>>
             THEN <<[op |-> "build", snap |-> Stringify(heap, Ref(docs[ret.out]))]>>
             ELSE meta
  /\ docs' = IF meta' = <<>> THEN <<Draft>> ELSE <<Draft, Draft>>
  /\ UNCHANGED <<heap, log, rng, clock>>

NextBuilt ==
  \/ IsVCBuilder /\ SetDraftList("@context", <<Str(ContextUri)>>)
  \/ IsVCBuilder /\ \E c \in CredentialTypes : SetDraftList("type", c)
  \/ IsVCBuilder /\ AddToDraft("addType", "type", Str("UniversityDegreeCredential"))
  \/ IsVCBuilder /\ \E v \in {Str("did:example:A"), Str("did:example:other")} :
                      SetDraft("issuer", v)
  \/ IsVCBuilder /\ \E v \in Dates : BuilderDate("issuanceDate", v)
  \/ IsVCBuilder /\ SetSubject
  \/ IsVCBuilder /\ VCBuild
  \/ IsVPBuilder /\ \E t \in PresentationTypes : AddToDraft("addType", "type", t)
  \/ IsVPBuilder /\ \E v \in {Str("did:example:H"), Str("did:example:other")} :
                      SetDraft("holder", v)
  \/ IsVPBuilder /\ AddCredential
  \/ IsVPBuilder /\ VPBuild
  \/ Keep

SpecBuilt == InitBuilt /\ [][NextBuilt]_vars

\* C28 as stated: a document that build() has returned is not changed by
\* any later call on the builder it came from.
BuiltImmutable ==
  meta # <<>> => Stringify(heap, Ref(docs[2])) = meta[1].snap

(***************************************************************************)
(* Calls in flight at the same time.  Each call is cut into the statements *)
(* of its method; the statements of different calls interleave in every    *)
(* order.  What the calls share is the heap with the caller's documents,   *)
(* the clock, the nonce source and the console; the local variables of a   *)
(* call are in its frame meta[p].  A copy a call has made is its own until *)
(* it returns it, so a frame keeps it as JSON.  Statements that touch      *)
(* nothing shared are taken together with the next one that does.          *)
(***************************************************************************)
\* the document all the callers hold: a signed credential
SignedShort == sign(PlainHeap(TObj(Short)), Ref(1), KeyObject("private", "K1"), 0, 0)

ConcurrentHeap == Collect(SignedShort.heap, <<SignedShort.val.a>>).heap

ConcurrentDocs == Collect(SignedShort.heap, <<SignedShort.val.a>>).roots

InitConcurrent ==
  /\ heap = ConcurrentHeap
  /\ docs = ConcurrentDocs
  /\ meta = <<>>
  /\ ret = NoCall
  /\ log = <<>>
  /\ rng = 1
  /\ clock = 1

InFlight(f) == f.pc # "done"

\* a call is made: sign(vc, key) .. verifyPresentation(vp, key)
Start(op, i, key) ==
  /\ Len(meta) < MaxCalls
  /\ meta' = Append([q \in DOMAIN meta |->
                       [meta[q] EXCEPT !.overlapped = @ \/ InFlight(meta[q])]],
                    [op |-> op, vc |-> Ref(docs[i]), key |-> key,
                     pc |-> IF op \in SignOps THEN "copy" ELSE "guard",
                     copy |-> TNull, proof |-> NewProof, msg |-> "",
                     keyObject |-> NoKey, sig |-> Undef,
                     threw |-> FALSE, val |-> "", out |-> 0,
                     overlapped |-> \E q \in DOMAIN meta : InFlight(meta[q])])
  /\ UNCHANGED <<heap, docs, ret, log, rng, clock>>

\* call p is at statement pc of a method in ops
At(p, ops, pc) == meta[p].op \in ops /\ meta[p].pc = pc

Goto(p, f) == meta' = [meta EXCEPT ![p] = f]

Throw(p) == Goto(p, [meta[p] EXCEPT !.pc = "done", !.threw = TRUE])

\* const signedVc = JSON.parse(JSON.stringify(vc));
SignCopy(p) ==
  /\ At(p, SignOps, "copy")
  /\ Goto(p, [meta[p] EXCEPT !.pc = "proof", !.copy = Stringify(heap, meta[p].vc)])
  /\ UNCHANGED <<heap, docs, ret, log, rng, clock>>

\* const proof = ProofGenerator.createProofWithMetadata(..): reads the clock,
\* and vp.holder in signPresentation
SignProof(p) ==
  /\ At(p, SignOps, "proof")
  /\ Goto(p, [meta[p] EXCEPT
       !.pc = "canon",
       !.proof =
         IF meta[p].op = "sign"
         THEN createProofWithMetadata(PROOF_TYPE, PROOF_PURPOSE,
                                      "did:example:123#key-1", clock)
         ELSE createProofWithMetadata(
                PROOF_TYPE, "authentication",
                IF Truthy(Get(heap, meta[p].vc, "holder"))
                THEN TemplateText(Get(heap, meta[p].vc, "holder")) \o "#key-1"
                ELSE "did:example:holder#key-1",
                clock)])
  /\ clock' = clock + 1
  /\ UNCHANGED <<heap, docs, ret, log, rng>>

\* const canonicalVc = JSONLDCanon.canonicalize(vc, true): works on the
\* caller's document; the copies it makes are garbage when it returns
SignCanon(p) ==
  /\ At(p, SignOps, "canon")
  /\ LET r == canonicalize(heap, meta[p].vc, TRUE)
     IN /\ heap' = SubSeq(r.heap, 1, Len(heap))
        /\ Goto(p, [meta[p] EXCEPT !.pc = "sign", !.msg = r.str])
  /\ UNCHANGED <<docs, ret, log, rng, clock>>

\* const keyObject = this._getKeyObject(privateKey, 'private');
\* const signature = sign.sign(keyObject, 'base64'): draws a nonce
SignSign(p) ==
  /\ At(p, SignOps, "sign")
  /\ LET k == getKeyObject(meta[p].key, "private")
     IN IF k.threw \/ k.key.role # "private"
        THEN Throw(p) /\ rng' = rng
        ELSE /\ Goto(p, [meta[p] EXCEPT
                  !.pc = "log",
                  !.keyObject = k.key,
                  !.sig = Str(EcdsaSign(k.key.id, meta[p].msg, NextNonce(rng)))])
             /\ rng' = NextNonce(rng)
  /\ UNCHANGED <<heap, docs, ret, log, clock>>

\* console.log("[FIPS AUDIT] Signed ..");
SignLog(p) ==
  /\ At(p, SignOps, "log")
  /\ log' = <<IF meta[p].op = "sign" THEN SignedVcLine ELSE SignedVpLine>>
  /\ Goto(p, [meta[p] EXCEPT !.pc = "return"])
  /\ UNCHANGED <<heap, docs, ret, rng, clock>>

\* proof.setProofValue(signature); signedVc.proof = proof.toJSON();
\* return signedVc: the copy becomes an object the caller holds
SignReturn(p) ==
  /\ At(p, SignOps, "return")
  /\ LET c == Parse(heap, meta[p].copy)
         signed == [meta[p].proof EXCEPT !.proofValue = meta[p].sig]
         h1 == Append(c.heap, [kind |-> "Object", f |-> ProofToJSON(signed)])
     IN /\ heap' = [h1 EXCEPT ![c.val.a] = SetField(@, "proof", Ref(Len(h1)))]
        /\ Goto(p, [meta[p] EXCEPT !.pc = "done", !.out = c.val.a])
  /\ UNCHANGED <<docs, ret, log, rng, clock>>

\* if (!vc.proof || !vc.proof.proofValue) return false;
\* const signature = proof.proofValue;
VerifyGuard(p) ==
  /\ At(p, VerifyOps, "guard")
  /\ IF NoProofValue(heap, meta[p].vc)
     THEN Goto(p, [meta[p] EXCEPT !.pc = "done", !.val = "false"])
     ELSE Goto(p, [meta[p] EXCEPT
            !.pc = "copy",
            !.sig = Get(heap, Get(heap, meta[p].vc, "proof"), "proofValue")])
  /\ UNCHANGED <<heap, docs, ret, log, rng, clock>>

\* const vcWithoutProof = JSON.parse(JSON.stringify(vc));
\* delete vcWithoutProof.proof;
VerifyCopy(p) ==
  /\ At(p, VerifyOps, "copy")
  /\ LET c == Parse(heap, Stringify(heap, meta[p].vc))
         h1 == [c.heap EXCEPT ![c.val.a] = DeleteField(@, "proof")]
     IN Goto(p, [meta[p] EXCEPT !.pc = "verify", !.copy = Stringify(h1, c.val)])
  /\ UNCHANGED <<heap, docs, ret, log, rng, clock>>

\* const canonicalVc = JSONLDCanon.canonicalize(vcWithoutProof);
\* const keyObject = this._getKeyObject(publicKey, 'public');
\* const valid = verify.verify(keyObject, signature, 'base64');
VerifyVerify(p) ==
  /\ At(p, VerifyOps, "verify")
  /\ LET msg == CanonicalOf(meta[p].copy, FALSE)
         k == getKeyObject(meta[p].key, "public")
     IN IF k.threw \/ meta[p].sig.t # "str"
        THEN Throw(p)
        ELSE Goto(p, [meta[p] EXCEPT
               !.pc = "log",
               !.msg = msg,
               !.keyObject = k.key,
               !.val = BoolText(EcdsaVerify(k.key, msg, meta[p].sig.s))])
  /\ UNCHANGED <<heap, docs, ret, log, rng, clock>>

\* console.log(`[FIPS AUDIT] Verified .. signature: ${valid}`); return valid;
VerifyLog(p) ==
  /\ At(p, VerifyOps, "log")
  /\ log' = <<IF meta[p].op = "verify"
              THEN VerifiedVcLine(meta[p].val = "true")
              ELSE VerifiedVpLine(meta[p].val = "true")>>
  /\ Goto(p, [meta[p] EXCEPT !.pc = "done"])
  /\ UNCHANGED <<heap, docs, ret, rng, clock>>

\* the calls the concurrent callers make, each with its key
ConcurrentCalls ==
  {<<"sign", Base64Key("private", "K2")>>,
   <<"sign", GarbageKey>>,
   <<"signPresentation", Base64Key("private", "K2")>>,
   <<"verify", Base64Key("public", "K1")>>,
   <<"verifyPresentation", Base64Key("public", "K1")>>}

\* what a call gives when it runs alone on the caller's documents, from its
\* first statement to its last with nothing in between
Alone(op, key) ==
  LET h == ConcurrentHeap
      vc == Ref(ConcurrentDocs[1])
  IN IF op \in SignOps
     THEN LET a == IF op = "sign" THEN sign(h, vc, key, 1, 1)
                   ELSE signPresentation(h, vc, key, 1, 1)
          IN [threw |-> a.threw, val |-> "",
              doc |-> IF a.threw THEN TNull ELSE Stringify(a.heap, a.val),
              msg |-> canonicalize(h, vc, TRUE).str]
     ELSE LET a == IF op = "verify" THEN verify(h, vc, key)
                   ELSE verifyPresentation(h, vc, key)
          IN [threw |-> a.threw, val |-> IF a.threw THEN "" ELSE BoolText(a.val),
              doc |-> TNull, msg |-> ""]

AloneOf == [c \in ConcurrentCalls |-> Alone(c[1], c[2])]

NextConcurrent ==
  \/ \E c \in ConcurrentCalls, i \in DOMAIN docs : Start(c[1], i, c[2])
  \/ \E p \in DOMAIN meta : SignCopy(p)
  \/ \E p \in DOMAIN meta : SignProof(p)
  \/ \E p \in DOMAIN meta : SignCanon(p)
  \/ \E p \in DOMAIN meta : SignSign(p)
  \/ \E p \in DOMAIN meta : SignLog(p)
  \/ \E p \in DOMAIN meta : SignReturn(p)
  \/ \E p \in DOMAIN meta : VerifyGuard(p)
  \/ \E p \in DOMAIN meta : VerifyCopy(p)
  \/ \E p \in DOMAIN meta : VerifyVerify(p)
  \/ \E p \in DOMAIN meta : VerifyLog(p)

SpecConcurrent == InitConcurrent /\ [][NextConcurrent]_vars

\* the proof of a document without the two fields that differ from call to
\* call, the time and the signature
ProofFrame(tr) == TWithout(TWithout(TGet(tr, "proof"), "created"), "proofValue")

\* call p has returned what it returns when it runs alone: the same answer
\* or exception, and for a signing call the same document with a signature
\* of the same key over the same bytes
AsAlone(f) ==
  LET alone == AloneOf[<<f.op, f.key>>]
  IN /\ f.threw = alone.threw
     /\ f.val = alone.val
     /\ (f.op \in SignOps /\ ~f.threw) =>
          LET tr == Stringify(heap, Ref(f.out))
          IN /\ Content(tr) = Content(alone.doc)
             /\ ProofFrame(tr) = ProofFrame(alone.doc)
             /\ \E n \in 1..(MaxCalls + 1) :
                  ProofValueOf(tr) =
                    TStr(EcdsaSign(getKeyObject(f.key, "private").key.id, alone.msg, n))

\* C23: calls whose statements interleave in any order each return what
\* they return when run alone, and the caller's documents stay as they were.
CallsIsolated ==
  /\ \A p \in DOMAIN meta : ~InFlight(meta[p]) => AsAlone(meta[p])
  /\ \A a \in DOMAIN ConcurrentHeap : heap[a] = ConcurrentHeap[a]

OverlappedSeen ==
  \E p, q \in DOMAIN meta :
    /\ ~InFlight(meta[p]) /\ ~InFlight(meta[q])
    /\ meta[p].overlapped /\ meta[q].overlapped
    /\ meta[p].vc = meta[q].vc
    /\ meta[p].op = "verify" /\ meta[p].val = "true"
    /\ meta[q].op = "sign" /\ meta[q].out # 0

====
